---- MODULE Spec2Model ----
(***************************************************************************)
(* A model of main.py of the transcriber: the interactive run of main(),   *)
(* the preparation of oversized files (reduce_file, chunk_file), the       *)
(* per-file transcription() with its loader thread, the stitching done by  *)
(* whisper(), and the temporary directory reduced_files.                   *)
(*                                                                         *)
(* Units.  File sizes are whole megabytes, durations are whole hundredths  *)
(* of a second (the resolution of round(x, 2)), times of transcript        *)
(* segments are whole milliseconds (the resolution of an SRT timestamp).   *)
(***************************************************************************)
EXTENDS Integers, Sequences, FiniteSets, TLC

(***************************************************************************)
(* Bounds of the model.                                                    *)
(***************************************************************************)
\* Most segments in one response of the speech-to-text service.
MaxSegs == 2
\* Most batches ("Transcribe n file(s)? y") started in one run of main().
MaxBatches == 1
\* Most entries of a directory listing handed to the classifier alone.
MaxListing == 2
\* Every time from 0 to MaxTimeMs milliseconds is formatted and parsed back.
MaxTimeMs == 1100

(***************************************************************************)
(* Program constants.                                                      *)
(***************************************************************************)
\* The size limit in MB: main.py:176, main.py:277 and main.py:558.
SizeLimitMB == 25
\* supported_extensions, main.py:114.
supported_extensions ==
    {".mp3", ".mp4", ".mpeg", ".mpga", ".m4a", ".wav", ".webm"}

(***************************************************************************)
(* Small helpers.                                                          *)
(***************************************************************************)
Last(s) == s[Len(s)]

Max(a, b) == IF a >= b THEN a ELSE b

\* math.ceil(a / b) for positive b.
CeilDiv(a, b) == (a + b - 1) \div b

RECURSIVE SeqFilter(_, _)
\* The elements of s that are in the set T, in the order of s.
SeqFilter(s, T) ==
    IF s = <<>> THEN <<>>
    ELSE IF Head(s) \in T THEN <<Head(s)>> \o SeqFilter(Tail(s), T)
         ELSE SeqFilter(Tail(s), T)

\* All orders in which the elements of the finite set S can be enumerated.
Orders(S) ==
    {s \in [1..Cardinality(S) -> S] : \A x \in S : \E i \in DOMAIN s : s[i] = x}

(***************************************************************************)
(* SRT timestamps.                                                         *)
(*                                                                         *)
(* A timestamp "HH:MM:SS,mmm" is the record of its four fields.  Python    *)
(* computes the seconds handed to seconds_to_srt_time as the double        *)
(* raw/1000.0 + last_timestamp_seconds, where last_timestamp_seconds is 0  *)
(* or the double srt_time_to_seconds made of an earlier timestamp.  A      *)
(* double just below a whole millisecond is truncated to the millisecond   *)
(* before by int((seconds % 1) * 1000).  FloatShort lists the pairs        *)
(* <<raw ms, offset ms>> of the model's segment grid for which CPython's   *)
(* IEEE-754 arithmetic does so (every fmt/parse chain of up to 24 chunks   *)
(* of up to 3 segments of SegMs each, evaluated with the source's two      *)
(* functions); for all other pairs of the grid the fields are exact.       *)
(***************************************************************************)
\* Length of every raw segment of the model's responses (1.372 s).
SegMs == 1372

FloatShort == {
    <<4116, 0>>, <<0, 1372>>, <<1372, 1372>>, <<2744, 1372>>, <<4116, 1372>>,
    <<0, 2743>>, <<0, 2744>>, <<1372, 2744>>, <<2744, 2744>>, <<4116, 2744>>,
    <<4116, 4115>>, <<2744, 5487>>, <<4116, 5487>>, <<1372, 6859>>,
    <<2744, 6859>>, <<4116, 6859>>, <<4116, 10974>>, <<2744, 12346>>,
    <<4116, 12346>>, <<1372, 13718>>, <<2744, 13718>>, <<4116, 13718>>,
    <<4116, 15089>>, <<0, 16461>>, <<1372, 16461>>, <<2744, 16461>>,
    <<4116, 16461>>, <<0, 17833>>, <<1372, 17833>>, <<2744, 17833>>,
    <<4116, 17833>>, <<4116, 23320>>, <<2744, 24692>>, <<4116, 24692>>,
    <<1372, 26064>>, <<2744, 26064>>, <<4116, 26064>>, <<0, 27435>>,
    <<1372, 27435>>, <<2744, 27435>>, <<4116, 27435>>, <<4116, 28806>>,
    <<0, 28807>>, <<1372, 28807>>, <<2744, 28807>>, <<4116, 30178>>,
    <<0, 30179>>, <<1372, 30179>>, <<4116, 31550>>, <<0, 32921>>,
    <<1372, 32921>>, <<2744, 32921>>, <<4116, 32921>>, <<0, 32922>>,
    <<1372, 32922>>, <<2744, 32922>>, <<4116, 32922>>, <<0, 34293>>,
    <<1372, 34293>>, <<2744, 34293>>, <<4116, 34293>>, <<0, 34294>>,
    <<1372, 34294>>, <<2744, 34294>>, <<4116, 34294>>, <<0, 35665>>,
    <<1372, 35665>>, <<2744, 35665>>, <<4116, 35665>>, <<0, 37037>>,
    <<1372, 37037>>, <<2744, 37037>>, <<4116, 37037>>, <<0, 38409>>,
    <<1372, 38409>>, <<2744, 38409>>, <<4116, 38409>>, <<4116, 50756>>,
    <<2744, 52128>>, <<4116, 52128>>, <<4116, 52131>>, <<1372, 53500>>,
    <<2744, 53500>>, <<4116, 53500>>, <<2744, 53503>>, <<4116, 53503>>,
    <<1372, 54875>>, <<2744, 54875>>, <<4116, 54875>>, <<4116, 60359>>,
    <<4116, 61734>>, <<4116, 63103>>, <<0, 64475>>, <<1372, 64475>>,
    <<2744, 64475>>, <<4116, 64475>>, <<0, 64478>>, <<1372, 64478>>,
    <<2744, 64478>>, <<4116, 64478>>, <<0, 65847>>, <<1372, 65847>>,
    <<2744, 65847>>, <<4116, 65847>>, <<0, 65850>>, <<1372, 65850>>,
    <<2744, 65850>>, <<4116, 65850>>, <<0, 67222>>, <<1372, 67222>>,
    <<2744, 67222>>, <<4116, 67222>>
    }

\* The largest offset for which FloatShort was evaluated.
FloatGridLimit == 24 * 3 * SegMs

\* The times s of whole milliseconds, of 0..TimeGridLimit and of LongTimes,
\* for which seconds_to_srt_time(s / 1000.0) renders one millisecond less
\* than s: the double s / 1000.0 lies below s ms and int() truncates
\* (evaluated with the source's function).
FloatShortAlone == {
    1001, 1003, 1005, 1007, 1009, 1011, 1013, 1015, 1017, 1019, 1021, 1023,
    1025, 1027, 1029, 1031, 1033, 1035, 1037, 1039, 1041, 1043, 1045, 1047,
    1049, 1051, 1053, 1055, 1057, 1059, 1061, 1063, 1065, 1067, 1069, 1071,
    1073, 1075, 1077, 1079, 1081, 1083, 1085, 1087, 1089, 1091, 1093, 1095,
    1097, 1099, 1101, 1103, 1105, 1107, 1109, 1111, 1113, 1115, 1126, 1128,
    1130, 1132, 1134, 1136, 1138, 1140, 1142, 1144, 1146, 1148, 1150, 1152,
    1154, 1156, 1158, 1160, 1162, 1164, 1166, 1168, 1170, 1172, 1174, 1176,
    1178, 1180, 1182, 1184, 1186, 1188, 1190, 1192, 1194, 1196, 1198,
    3599999, 86399999, 360000001
    }

\* The largest time up to which FloatShortAlone lists every such time.
TimeGridLimit == 1199

\* Times around a full minute, a full hour, a day and a hundred hours (ms).
LongTimes ==
    {59999, 60000, 3599999, 3600000, 3661001, 86399999, 359999999,
     360000000, 360000001}

\* seconds_to_srt_time(raw/1000.0 + offset/1000-as-parsed): the four fields.
seconds_to_srt_time(raw, offset) ==
    LET short == \/ <<raw, offset>> \in FloatShort
                 \/ offset = 0 /\ raw \in FloatShortAlone
        total == raw + offset - (IF short THEN 1 ELSE 0)
    IN  [h  |-> total \div 3600000,
         m  |-> (total % 3600000) \div 60000,
         s  |-> (total % 60000) \div 1000,
         ms |-> total % 1000]

\* srt_time_to_seconds with the milliseconds left out of the sum.
srt_time_to_seconds_whole(t) == t.h * 3600000 + t.m * 60000 + t.s * 1000

\* srt_time_to_seconds: hours*3600 + minutes*60 + seconds + milliseconds/1000,
\* in milliseconds.
srt_time_to_seconds(t) == t.h * 3600000 + t.m * 60000 + t.s * 1000 + t.ms

ZeroTime == [h |-> 0, m |-> 0, s |-> 0, ms |-> 0]

(***************************************************************************)
(* Transcript text.  A file is the sequence of its lines; a line is an id  *)
(* line, a time line "start --> end", or a text line (the empty text line  *)
(* is the blank line).                                                     *)
(***************************************************************************)
IdLine(n) == [k |-> "id", n |-> n, from |-> ZeroTime, to |-> ZeroTime, txt |-> ""]

TimeLine(a, b) == [k |-> "time", n |-> 0, from |-> a, to |-> b, txt |-> ""]

TextLine(t) == [k |-> "text", n |-> 0, from |-> ZeroTime, to |-> ZeroTime, txt |-> t]

BlankLine == TextLine("")

\* str.strip() on the texts the model's responses carry.
Strip(t) ==
    CASE t = " and finally " -> "and finally"
      [] t = "  " -> ""
      [] OTHER -> t

RECURSIVE RStripLines(_)
\* content.rstrip() followed by split("\n"): the lines without the trailing
\* blank ones; an all-blank content splits into the single line "".
RStripLines(lines) ==
    IF lines = <<>> THEN <<>>
    ELSE IF Last(lines) = BlankLine THEN RStripLines(SubSeq(lines, 1, Len(lines) - 1))
         ELSE lines

\* What split("\n") returns for the stripped content: never an empty list.
SplitLines(lines) ==
    IF RStripLines(lines) = <<>> THEN <<BlankLine>> ELSE RStripLines(lines)

(***************************************************************************)
(* The speech-to-text service.  A response is the list of its segments;    *)
(* segment i has the local id i and covers [i*SegMs, (i+1)*SegMs].         *)
(***************************************************************************)
RawSegment(i) ==
    [id |-> i, start |-> i * SegMs, end |-> (i + 1) * SegMs, text |-> " and finally "]

Response(n) == [i \in 1..n |-> RawSegment(i - 1)]

\* Every response of at most MaxSegs segments, the empty one included.
Responses == {Response(n) : n \in 0..MaxSegs}

\* The responses of a service that hears speech in every file.
SpeechResponses == {Response(n) : n \in 1..MaxSegs}

\* One block of whisper()'s output, main.py:433-445: the lines of
\* f"{id}\n{start} --> {end}\n{text}\n".
SrtBlock(segment, last_timestamp_seconds, last_id) ==
    << IdLine((segment.id + 1) + last_id),
       TimeLine(seconds_to_srt_time(segment.start, last_timestamp_seconds),
                seconds_to_srt_time(segment.end, last_timestamp_seconds)),
       TextLine(Strip(segment.text)) >>

RECURSIVE JoinBlocks(_, _, _)
\* "\n".join(srt_output), main.py:448: a blank line between two blocks.
JoinBlocks(segments, last_timestamp_seconds, last_id) ==
    IF segments = <<>> THEN <<>>
    ELSE IF Len(segments) = 1
         THEN SrtBlock(segments[1], last_timestamp_seconds, last_id)
         ELSE SrtBlock(segments[1], last_timestamp_seconds, last_id)
              \o <<BlankLine>>
              \o JoinBlocks(Tail(segments), last_timestamp_seconds, last_id)

\* whisper(), main.py:404-448, for the response `segments` of the service.
whisper(segments, last_timestamp_seconds, last_id) ==
    JoinBlocks(segments, last_timestamp_seconds, last_id)

(***************************************************************************)
(* Files and paths.                                                        *)
(*                                                                         *)
(* An input file is what the user has on disk: its base name, extension    *)
(* and size, and what the transcoder makes of it (the size of the ogg file *)
(* ffmpeg writes for it and the duration ffprobe reports).  A size of -1   *)
(* stands for an entry whose size cannot be read (os.path.getsize raises). *)
(***************************************************************************)
InputFile(base, ext, size, rsize, dur) ==
    [base |-> base, ext |-> ext, size |-> size, rsize |-> rsize, dur |-> dur]

\* A path handed to transcription(): an original file, the reduced file
\* reduced_files/<base>.ogg (idx = -1), or the chunk file
\* reduced_files/<base>/<base>-chunk_<idx as %03d>.ogg.
OriginalPath(f) == [tmp |-> FALSE, base |-> f.base, idx |-> -1, ext |-> f.ext]

ReducedPath(base) == [tmp |-> TRUE, base |-> base, idx |-> -1, ext |-> ".ogg"]

ChunkPath(base, i) == [tmp |-> TRUE, base |-> base, idx |-> i, ext |-> ".ogg"]

\* "-chunk_" in file_name, main.py:352 (no base name of the model holds it).
IsChunk(path) == path.idx >= 0

\* file_name_without_ext.endswith("0"), main.py:367, for a chunk file: the
\* name ends with the last digit of the index.
EndsWithZero(path) == path.idx % 10 = 0

\* The position of a path among the chunks of its base name: the index of a
\* chunk file, 0 for a file that was not split.
SequenceIndex(path) == IF IsChunk(path) THEN path.idx ELSE 0

\* file_extension = os.path.splitext(file)[1].lower(), main.py:126.
Lower(ext) ==
    CASE ext = ".MP3" -> ".mp3"
      [] ext = ".WAV" -> ".wav"
      [] ext = ".TXT" -> ".txt"
      [] OTHER -> ext

RECURSIVE SupportedOf_below_limit(_)
\* SupportedOf with a size test added: files of 25 MB or more are left out.
SupportedOf_below_limit(files) ==
    IF files = <<>> THEN <<>>
    ELSE LET file == Head(files)
             rest == SupportedOf_below_limit(Tail(files))
         IN  IF Lower(file.ext) \in supported_extensions /\ file.size < SizeLimitMB
             THEN <<[file_path |-> file, file_size |-> file.size]>> \o rest
             ELSE rest

RECURSIVE SupportedOf(_)
\* The loop of main.py:125-130 over the entries that can be read.
SupportedOf(files) ==
    IF files = <<>> THEN <<>>
    ELSE LET file == Head(files)
             file_extension == Lower(file.ext)
             rest == SupportedOf(Tail(files))
         IN  IF file_extension \in supported_extensions
             THEN <<[file_path |-> file, file_size |-> file.size]>> \o rest
             ELSE rest

\* list_whisper_supported_files(), main.py:104-148.  entry.kind says what the
\* path is: "file", "dir" or "missing"; ok = FALSE is the return of None
\* after "Path error".
list_whisper_supported_files(entry) ==
    IF entry.kind \notin {"file", "dir"}
    THEN [ok |-> FALSE, files |-> <<>>]
    ELSE IF \E i \in DOMAIN entry.files : entry.files[i].size < 0
         THEN [ok |-> FALSE, files |-> <<>>]
         ELSE [ok |-> TRUE, files |-> SupportedOf(entry.files)]

(***************************************************************************)
(* chunk_file(): the arithmetic of main.py:276-283.                        *)
(***************************************************************************)
\* chunk_count = math.ceil(reduced_file_size / 25).
chunk_count(reduced_file_size) == CeilDiv(reduced_file_size, SizeLimitMB)

\* chunk_duration = round((duration / chunk_count) * 1.001, 2), in hundredths
\* of a second.  The double 1.001 lies below 1.001, so a product halfway
\* between two hundredths rounds down.
chunk_duration(duration, count) ==
    LET num == duration * 1001
        den == 1000 * count
        q   == num \div den
        r   == num % den
    IN  IF 2 * r > den THEN q + 1 ELSE q

\* The files "-f segment -segment_time <chunk_duration>" writes for an input
\* of the given duration: one per started interval, none when the segment
\* time is not positive (ffmpeg rejects it).
SplitCount(duration, segment_time) ==
    IF segment_time <= 0 THEN 0 ELSE CeilDiv(duration, segment_time)

(***************************************************************************)
(* The state of a run of main().                                           *)
(***************************************************************************)
VARIABLES
    inputs,               \* what the user can enter at the path prompt
    service,              \* the responses the speech-to-text service can give
    pc,                   \* where main() stands
    supported_files,      \* main.py:538
    file_index,           \* position of the loop of main.py:554 (from 1)
    files_to_transcribe,  \* main.py:551
    counter,              \* main.py:581: files transcribed in this batch
    cont,                 \* last_id, last_timestamp_seconds of transcription()
    transcription_srt,    \* what whisper() returned, not yet appended
    stop_event,           \* the threading.Event of main.py:383
    loader_thread,        \* "none", "running" or "exited"
    spinner,              \* whether the terminal line shows a loader frame
    reduced_dir,          \* whether the directory reduced_files exists
    tmp_files,            \* the files under reduced_files
    transcripts,          \* transcriptions/<base>.txt for every base name
    stdout,               \* the reports main() has written
    batches,              \* batches started in this run
    cleanups,             \* calls of cleanup_reduced_files() in this run
    journal,              \* one entry per transcription() that appended
    failed,               \* number of the file whose whisper() call raised
    call                  \* argument and result of a function checked alone

vars ==
    << inputs, service, pc, supported_files, file_index, files_to_transcribe, counter,
       cont, transcription_srt, stop_event, loader_thread, spinner, reduced_dir,
       tmp_files, transcripts, stdout, batches, cleanups, journal, failed, call >>

\* The input files of the model.
FileA == InputFile("a", ".MP3", 10, 0, 0)

FileNotes == InputFile("notes", ".txt", 1, 0, 0)

\* Scenario B of the specification: a 60 MB ogg of 120 s, three chunks.
FileB == InputFile("b", ".wav", 600, 60, 12000)

\* An oversized file whose ogg fits the limit.
FileC == InputFile("c", ".m4a", 40, 20, 6000)

\* A long recording: a 260 MB ogg of one hour, eleven chunks.
FileLong == InputFile("long", ".m4a", 900, 260, 360000)

BaseNames == {"a", "b", "c", "long", "notes"}

ExitEntry == [kind |-> "exit", files |-> <<>>]

MissingEntry == [kind |-> "missing", files |-> <<>>]

FileEntry(f) == [kind |-> "file", files |-> <<f>>]

DirEntry(fs) == [kind |-> "dir", files |-> fs]

\* What the user can enter in a run on short recordings.
ShortInputs ==
    { ExitEntry, MissingEntry, FileEntry(FileC), DirEntry(<<FileNotes>>),
      DirEntry(<<FileA, FileNotes, FileB>>) }

\* What the user can enter in a run on the long recording.
LongInputs ==
    { ExitEntry, MissingEntry, FileEntry(FileA), DirEntry(<<FileNotes>>),
      FileEntry(FileLong) }

NoTranscript == [exists |-> FALSE, lines |-> <<>>]

ZeroState == [last_id |-> 0, last_timestamp_seconds |-> 0, read |-> FALSE]

InitRun ==
    /\ pc = "prompt"
    /\ supported_files = <<>>
    /\ file_index = 0
    /\ files_to_transcribe = <<>>
    /\ counter = 0
    /\ cont = ZeroState
    /\ transcription_srt = <<>>
    /\ stop_event = FALSE
    /\ loader_thread = "none"
    /\ spinner = FALSE
    /\ tmp_files = {}
    /\ transcripts = [b \in BaseNames |-> NoTranscript]
    /\ stdout = {}
    /\ batches = 0
    /\ cleanups = 0
    /\ journal = <<>>
    /\ failed = 0

\* A run on short recordings; an earlier run that was killed may have left
\* reduced_files behind.
Init ==
    /\ inputs = ShortInputs
    /\ service = Responses
    /\ reduced_dir \in BOOLEAN
    /\ call = <<>>
    /\ InitRun

\* A run on the long recording, every chunk of which holds speech.
InitLong ==
    /\ inputs = LongInputs
    /\ service = SpeechResponses
    /\ reduced_dir = FALSE
    /\ call = <<>>
    /\ InitRun

(***************************************************************************)
(* Leaving main(): cleanup_reduced_files() and the handlers.               *)
(***************************************************************************)
\* cleanup_reduced_files(), main.py:500-508.
cleanup_reduced_files ==
    /\ reduced_dir' = FALSE
    /\ tmp_files' = {}
    /\ cleanups' = cleanups + 1

\* What the handler of main.py:606-612 writes for the way the try block ended.
ExitReport(how) ==
    CASE how = "interrupt" -> {"Operation interrupted by user."}
      [] how = "error" -> {"Something broke"}
      [] OTHER -> {}

\* ExitMain without the finally clause: reduced_files is left as it is.
ExitMain_without_finally(how, said) ==
    /\ stdout' = stdout \cup said \cup ExitReport(how)
    /\ pc' = "done"
    /\ UNCHANGED << reduced_dir, tmp_files, cleanups >>

\* The end of main(): the except clause that applies, then the finally
\* clause of main.py:614-617.  `said` is what the try block wrote just before.
ExitMain(how, said) ==
    /\ stdout' = stdout \cup said \cup ExitReport(how)
    /\ cleanup_reduced_files
    /\ pc' = "done"

\* KeyboardInterrupt, raised in the main thread wherever it stands.
KeyboardInterrupt ==
    /\ pc # "done"
    /\ ExitMain("interrupt", {})
    /\ UNCHANGED << inputs, service, supported_files, file_index, files_to_transcribe,
                    counter, cont, transcription_srt, stop_event, loader_thread,
                    spinner, transcripts, batches, journal, failed, call >>

(***************************************************************************)
(* main(): the prompts and the preparation loop.                           *)
(***************************************************************************)
\* main.py:528-541: the user enters a path (or exit).
main_prompt(entry) ==
    /\ pc = "prompt"
    /\ entry \in inputs
    /\ LET listed == list_whisper_supported_files(entry)
       IN  IF entry.kind = "exit"
           THEN \* break, main.py:532-534
                /\ ExitMain("normal", {})
                /\ UNCHANGED supported_files
           ELSE IF ~listed.ok
           THEN \* None is returned and len(None) raises, main.py:539
                /\ ExitMain("error", {"Path error: Not a file or a folder."})
                /\ UNCHANGED supported_files
           ELSE /\ supported_files' = listed.files
                /\ pc' = IF listed.files = <<>> THEN "prompt" ELSE "confirm"
                /\ UNCHANGED << stdout, reduced_dir, tmp_files, cleanups >>
    /\ UNCHANGED << inputs, service, file_index, files_to_transcribe, counter, cont,
                    transcription_srt, stop_event, loader_thread, spinner,
                    transcripts, batches, journal, failed, call >>

\* main.py:543-551 and 603-604: "Transcribe n file(s)? (y/n)".
main_confirm(answer) ==
    /\ pc = "confirm"
    /\ IF answer = "y"
       THEN /\ batches < MaxBatches
            /\ batches' = batches + 1
            /\ files_to_transcribe' = <<>>
            /\ file_index' = 1
            /\ pc' = "prepare"
       ELSE /\ pc' = "prompt"
            /\ UNCHANGED << batches, files_to_transcribe, file_index >>
    /\ UNCHANGED << inputs, service, supported_files, counter, cont, transcription_srt,
                    stop_event, loader_thread, spinner, reduced_dir, tmp_files,
                    transcripts, stdout, cleanups, journal, failed, call >>

\* One turn of the loop of main.py:554-576, up to the next prompt; after the
\* last file, main.py:579-581, or main.py:591-592 when nothing is to be done.
main_prepare ==
    /\ pc = "prepare"
    /\ IF file_index <= Len(supported_files)
       THEN /\ LET file == supported_files[file_index]
               IN  IF file.file_size > SizeLimitMB
                   THEN /\ pc' = "reduce_prompt"
                        /\ UNCHANGED << files_to_transcribe, file_index >>
                   ELSE /\ files_to_transcribe' =
                               Append(files_to_transcribe,
                                      OriginalPath(file.file_path))
                        /\ file_index' = file_index + 1
                        /\ pc' = "prepare"
            /\ UNCHANGED << counter, reduced_dir, tmp_files, cleanups >>
       ELSE IF files_to_transcribe # <<>>
            THEN /\ counter' = 0
                 /\ pc' = "transcribe"
                 /\ UNCHANGED << files_to_transcribe, file_index, reduced_dir,
                                 tmp_files, cleanups >>
            ELSE /\ cleanup_reduced_files
                 /\ pc' = "continue"
                 /\ UNCHANGED << files_to_transcribe, file_index, counter >>
    /\ UNCHANGED << inputs, service, supported_files, cont, transcription_srt, stop_event,
                    loader_thread, spinner, transcripts, stdout, batches, journal,
                    failed, call >>

\* main.py:560-573: "reduce and split if necessary? (y/n)"; on y,
\* prepare_file_for_transcription() creates reduced_files (main.py:167-168)
\* and reduce_file() starts ffmpeg (main.py:215).
main_reduce_input(answer) ==
    /\ pc = "reduce_prompt"
    /\ IF answer = "y"
       THEN /\ reduced_dir' = TRUE
            /\ pc' = "reducing"
            /\ UNCHANGED file_index
       ELSE /\ file_index' = file_index + 1
            /\ pc' = "prepare"
            /\ UNCHANGED reduced_dir
    /\ UNCHANGED << inputs, service, supported_files, files_to_transcribe, counter, cont,
                    transcription_srt, stop_event, loader_thread, spinner,
                    tmp_files, transcripts, stdout, batches, cleanups, journal,
                    failed, call >>

\* The files of reduced_files after ffmpeg -y wrote `written` over them.
Overwrite(files, written) ==
    {f \in files : \A w \in written : ~(w.base = f.base /\ w.idx = f.idx)}
        \cup written

\* reduce_file_done without the test of main.py:176: every reduced file is
\* handed to chunk_file().
reduce_file_done_always_split ==
    /\ pc = "reducing"
    /\ LET f == supported_files[file_index].file_path
           output == [base |-> f.base, idx |-> -1, src |-> <<f.base, f.ext>>]
       IN  tmp_files' = Overwrite(tmp_files, {output})
    /\ pc' = "splitting"
    /\ UNCHANGED << inputs, service, supported_files, files_to_transcribe, file_index,
                    counter, cont, transcription_srt, stop_event, loader_thread,
                    spinner, reduced_dir, transcripts, stdout, batches, cleanups,
                    journal, failed, call >>

\* reduce_file() after ffmpeg ended well, main.py:225-238, and then
\* main.py:176-184: the reduced file is split or is the file to transcribe.
reduce_file_done ==
    /\ pc = "reducing"
    /\ LET f == supported_files[file_index].file_path
           output == [base |-> f.base, idx |-> -1, src |-> <<f.base, f.ext>>]
       IN  /\ tmp_files' = Overwrite(tmp_files, {output})
           /\ IF f.rsize > SizeLimitMB
              THEN /\ pc' = "splitting"
                   /\ UNCHANGED << files_to_transcribe, file_index >>
              ELSE /\ files_to_transcribe' =
                          Append(files_to_transcribe, ReducedPath(f.base))
                   /\ file_index' = file_index + 1
                   /\ pc' = "prepare"
    /\ UNCHANGED << inputs, service, supported_files, counter, cont, transcription_srt,
                    stop_event, loader_thread, spinner, reduced_dir, transcripts,
                    stdout, batches, cleanups, journal, failed, call >>

\* reduce_file() after ffmpeg left no output (os.path.getsize raises,
\* main.py:231) or ffprobe printed no number (float() raises, main.py:253).
reduce_file_raise ==
    /\ pc = "reducing"
    /\ ExitMain("error", {})
    /\ UNCHANGED << inputs, service, supported_files, file_index, files_to_transcribe,
                    counter, cont, transcription_srt, stop_event, loader_thread,
                    spinner, transcripts, batches, journal, failed, call >>

(***************************************************************************)
(* chunk_file(): the split and the listing it returns.                     *)
(***************************************************************************)
\* The chunk files of a base name that are in reduced_files/<base>.
ChunkFilesOf(files, base) == {f \in files : f.base = base /\ f.idx >= 0}

RECURSIVE Ascending(_)
\* The paths of a set of chunk files by ascending index.
Ascending(S) ==
    IF S = {} THEN <<>>
    ELSE LET least == CHOOSE f \in S : \A g \in S : f.idx <= g.idx
         IN  <<ChunkPath(least.base, least.idx)>> \o Ascending(S \ {least})

Reverse(s) == [i \in 1..Len(s) |-> s[Len(s) + 1 - i]]

\* Most files of a directory for which every order of os.listdir is tried;
\* of a longer listing the ascending and the descending order are.
MaxShuffled == 3

\* The orders in which os.listdir may enumerate the chunk files S.
ListingOrders(S) ==
    IF Cardinality(S) <= MaxShuffled
    THEN {[i \in DOMAIN o |-> ChunkPath(o[i].base, o[i].idx)] : o \in Orders(S)}
    ELSE {Ascending(S), Reverse(Ascending(S))}

\* chunk_file() from the end of the split, main.py:321-331, when ffmpeg wrote
\* `produced` files: the listing of the chunk directory is returned as
\* os.listdir enumerates it, and main.py:569 extends files_to_transcribe.
chunk_file_return(produced) ==
    LET f == supported_files[file_index].file_path
        written == {[base |-> f.base, idx |-> i, src |-> <<f.base, f.ext>>] :
                        i \in 0..(produced - 1)}
        files == Overwrite(tmp_files, written)
    IN  /\ tmp_files' = files
        /\ \E listing \in ListingOrders(ChunkFilesOf(files, f.base)) :
              files_to_transcribe' = files_to_transcribe \o listing
        /\ file_index' = file_index + 1
        /\ pc' = "prepare"
        /\ UNCHANGED << inputs, service, supported_files, counter, cont,
                        transcription_srt, stop_event, loader_thread, spinner,
                        reduced_dir, transcripts, stdout, batches, cleanups,
                        journal, failed, call >>

\* The number of files the split of the reduced file of f writes.
SplitCountOf(f) ==
    SplitCount(f.dur, chunk_duration(f.dur, chunk_count(f.rsize)))

\* The split ended well.
chunk_file_done ==
    /\ pc = "splitting"
    /\ chunk_file_return(SplitCountOf(supported_files[file_index].file_path))

\* The split failed after writing some of its files; main.py:321 does not
\* look at the outcome of the process.
chunk_file_failed ==
    /\ pc = "splitting"
    /\ \E produced \in 0..(SplitCountOf(supported_files[file_index].file_path) - 1) :
          chunk_file_return(produced)

(***************************************************************************)
(* transcription(), main.py:334-401, and the loader thread.                *)
(***************************************************************************)
\* The file transcription() is called for next.
CurrentPath == files_to_transcribe[counter + 1]

\* main.py:366-376: whether the open and the parsing of the last block go
\* through.  The file must exist (open), hold three lines (lines[-3]), an id
\* in the third last (int) and "--> " in the second last (rsplit ... [1]).
CanRecover(transcript) ==
    /\ transcript.exists
    /\ LET lines == SplitLines(transcript.lines)
       IN  /\ Len(lines) >= 3
           /\ lines[Len(lines) - 2].k = "id"
           /\ lines[Len(lines) - 1].k = "time"

\* main.py:373-375: last_id and last_timestamp_seconds of the last block.
Recovered(transcript) ==
    LET lines == SplitLines(transcript.lines)
    IN  [last_id |-> lines[Len(lines) - 2].n,
         last_timestamp_seconds |-> srt_time_to_seconds(lines[Len(lines) - 1].to),
         read |-> TRUE]

\* main.py:367: the file is a chunk and not the first chunk.
ReadsPriorState(path) == IsChunk(path) /\ ~EndsWithZero(path)

\* main.py:343-387: the continuation state is set, the loader thread starts.
transcription_begin ==
    /\ pc = "transcribe"
    /\ counter < Len(files_to_transcribe)
    /\ IF ReadsPriorState(CurrentPath)
       THEN /\ CanRecover(transcripts[CurrentPath.base])
            /\ cont' = Recovered(transcripts[CurrentPath.base])
       ELSE cont' = ZeroState
    /\ cont'.last_timestamp_seconds + MaxSegs * SegMs <= FloatGridLimit
    /\ stop_event' = FALSE
    /\ loader_thread' = "running"
    /\ spinner' = FALSE
    /\ pc' = "whisper"
    /\ UNCHANGED << inputs, service, supported_files, file_index, files_to_transcribe,
                    counter, transcription_srt, reduced_dir, tmp_files,
                    transcripts, stdout, batches, cleanups, journal, failed,
                    call >>

\* main.py:368-375 raises: no transcript to open, or no block at its end.
transcription_raise ==
    /\ pc = "transcribe"
    /\ counter < Len(files_to_transcribe)
    /\ ReadsPriorState(CurrentPath)
    /\ ~CanRecover(transcripts[CurrentPath.base])
    /\ ExitMain("error", {})
    /\ UNCHANGED << inputs, service, supported_files, file_index, files_to_transcribe,
                    counter, cont, transcription_srt, stop_event, loader_thread,
                    spinner, transcripts, batches, journal, failed, call >>

\* main.py:390-394: whisper() returns for the response of the service, the
\* stop event is set and the main thread waits in join().
whisper_return(segments) ==
    /\ pc = "whisper"
    /\ segments \in service
    /\ transcription_srt' =
          whisper(segments, cont.last_timestamp_seconds, cont.last_id)
    /\ stop_event' = TRUE
    /\ pc' = "join"
    /\ UNCHANGED << inputs, service, supported_files, file_index, files_to_transcribe,
                    counter, cont, loader_thread, spinner, reduced_dir, tmp_files,
                    transcripts, stdout, batches, cleanups, journal, failed,
                    call >>

\* whisper_raise with the error swallowed: the chunk counts as transcribed
\* with nothing to write and the loop goes on with the next file.
whisper_raise_swallowed ==
    /\ pc = "whisper"
    /\ failed' = counter + 1
    /\ transcription_srt' = <<>>
    /\ stop_event' = TRUE
    /\ pc' = "join"
    /\ UNCHANGED << inputs, service, supported_files, file_index,
                    files_to_transcribe, counter, cont, loader_thread, spinner,
                    reduced_dir, tmp_files, transcripts, stdout, batches,
                    cleanups, journal, call >>

\* main.py:390: the request of whisper() raises; nothing in transcription()
\* catches it, so main.py:393-398 are skipped.
whisper_raise ==
    /\ pc = "whisper"
    /\ failed' = counter + 1
    /\ ExitMain("error", {})
    /\ UNCHANGED << inputs, service, supported_files, file_index, files_to_transcribe,
                    counter, cont, transcription_srt, stop_event, loader_thread,
                    spinner, transcripts, batches, journal, call >>

\* transcription_finish with the transcript opened for writing ("w"): the
\* result replaces what the file held.
transcription_finish_rewriting ==
    /\ pc = "join"
    /\ loader_thread = "exited"
    /\ LET base == CurrentPath.base
       IN  /\ transcripts' = [transcripts EXCEPT ![base] =
                  [exists |-> TRUE,
                   lines |-> transcription_srt \o <<BlankLine>>]]
           /\ journal' = Append(journal,
                  [path |-> CurrentPath, cont |-> cont, before |-> 0,
                   added |-> Len(transcription_srt) + 1])
    /\ transcription_srt' = <<>>
    /\ spinner' = FALSE
    /\ counter' = counter + 1
    /\ pc' = "transcribe"
    /\ UNCHANGED << inputs, service, supported_files, file_index, files_to_transcribe,
                    cont, stop_event, loader_thread, reduced_dir, tmp_files,
                    stdout, batches, cleanups, failed, call >>

\* main.py:396-401 and 585, once join() has returned: the result and a
\* newline are appended to the transcript of the base name.
transcription_finish ==
    /\ pc = "join"
    /\ loader_thread = "exited"
    /\ LET base == CurrentPath.base
           old == transcripts[base].lines
       IN  /\ transcripts' = [transcripts EXCEPT ![base] =
                  [exists |-> TRUE,
                   lines |-> old \o transcription_srt \o <<BlankLine>>]]
           /\ journal' = Append(journal,
                  [path |-> CurrentPath, cont |-> cont, before |-> Len(old),
                   added |-> Len(transcription_srt) + 1])
    /\ transcription_srt' = <<>>
    /\ spinner' = FALSE   \* "\r\033[2K...[DONE]" clears the line
    /\ counter' = counter + 1
    /\ pc' = "transcribe"
    /\ UNCHANGED << inputs, service, supported_files, file_index, files_to_transcribe,
                    cont, stop_event, loader_thread, reduced_dir, tmp_files,
                    stdout, batches, cleanups, failed, call >>

\* main_transcribed without the call of main.py:592: the temporary files
\* are left to the finally clause.
main_transcribed_without_cleanup ==
    /\ pc = "transcribe"
    /\ counter = Len(files_to_transcribe)
    /\ stdout' = stdout \cup {"Processing complete"}
    /\ pc' = "continue"
    /\ UNCHANGED << inputs, service, supported_files, file_index, files_to_transcribe,
                    counter, cont, transcription_srt, stop_event, loader_thread,
                    spinner, reduced_dir, tmp_files, cleanups, transcripts,
                    batches, journal, failed, call >>

\* main.py:587-592: after the last file, the count is reported and
\* cleanup_reduced_files() is called.
main_transcribed ==
    /\ pc = "transcribe"
    /\ counter = Len(files_to_transcribe)
    /\ stdout' = stdout \cup {"Processing complete"}
    /\ cleanup_reduced_files
    /\ pc' = "continue"
    /\ UNCHANGED << inputs, service, supported_files, file_index, files_to_transcribe,
                    counter, cont, transcription_srt, stop_event, loader_thread,
                    spinner, transcripts, batches, journal, failed, call >>

\* main.py:595-601: "Transcribe more files? (y/n)".
main_continue(answer) ==
    /\ pc = "continue"
    /\ IF answer = "y"
       THEN /\ pc' = "prompt"
            /\ UNCHANGED << stdout, reduced_dir, tmp_files, cleanups >>
       ELSE ExitMain("normal", {})
    /\ UNCHANGED << inputs, service, supported_files, file_index, files_to_transcribe,
                    counter, cont, transcription_srt, stop_event, loader_thread,
                    spinner, transcripts, batches, journal, failed, call >>

\* ascii_loader(), main.py:40-43: one frame is written over the terminal line.
ascii_loader_frame ==
    /\ loader_thread = "running"
    /\ ~stop_event
    /\ spinner' = TRUE
    /\ UNCHANGED << inputs, service, pc, supported_files, file_index,
                    files_to_transcribe, counter, cont, transcription_srt,
                    stop_event, loader_thread, reduced_dir, tmp_files,
                    transcripts, stdout, batches, cleanups, journal, failed,
                    call >>

\* ascii_loader(), main.py:40 and 46: the stop event is seen, the thread ends.
ascii_loader_exit ==
    /\ loader_thread = "running"
    /\ stop_event
    /\ loader_thread' = "exited"
    /\ UNCHANGED << inputs, service, pc, supported_files, file_index,
                    files_to_transcribe, counter, cont, transcription_srt,
                    stop_event, spinner, reduced_dir, tmp_files, transcripts,
                    stdout, batches, cleanups, journal, failed, call >>

Answers == {"y", "n"}

Next ==
    \/ \E entry \in inputs : main_prompt(entry)
    \/ \E answer \in Answers : main_confirm(answer)
    \/ main_prepare
    \/ \E answer \in Answers : main_reduce_input(answer)
    \/ reduce_file_done
    \/ reduce_file_raise
    \/ chunk_file_done
    \/ chunk_file_failed
    \/ transcription_begin
    \/ transcription_raise
    \/ \E segments \in service : whisper_return(segments)
    \/ whisper_raise
    \/ transcription_finish
    \/ main_transcribed
    \/ \E answer \in Answers : main_continue(answer)
    \/ ascii_loader_frame
    \/ ascii_loader_exit
    \/ KeyboardInterrupt

Spec == Init /\ [][Next]_vars

SpecLong == InitLong /\ [][Next]_vars

(***************************************************************************)
(* A run on a folder that holds two oversized recordings of one base name. *)
(***************************************************************************)
\* b.mp4, whose ogg fits the limit, and a b.mp4 whose ogg makes two chunks.
FileBSmall == InputFile("b", ".mp4", 40, 20, 6000)

FileBTwo == InputFile("b", ".mp4", 500, 30, 6000)

\* b.mp4 is listed before b.wav, or b.wav before the longer b.mp4.
SameNameInputs ==
    { ExitEntry, MissingEntry, DirEntry(<<FileBSmall, FileB>>),
      DirEntry(<<FileB, FileBTwo>>) }

InitSame ==
    /\ inputs = SameNameInputs
    /\ service = Responses
    /\ reduced_dir = FALSE
    /\ call = <<>>
    /\ InitRun

SpecSame == InitSame /\ [][Next]_vars

(***************************************************************************)
(* chunk_file() alone: the chunk count, the segment time and the files the *)
(* splitter writes, for a range of reduced sizes and durations.            *)
(***************************************************************************)
\* Reduced sizes over the limit, in MB: up to eleven chunks.
ChunkSizes == {26, 49, 50, 51, 60, 75, 76, 100, 260}

\* Durations in hundredths of a second, from one second to an hour.
ChunkDurations ==
    {100, 250, 500, 999, 1000, 1400, 3000, 6000, 12000, 100000, 360000}

InitChunk ==
    /\ inputs = {}
    /\ service = {}
    /\ reduced_dir = FALSE
    /\ InitRun
    /\ \E size \in ChunkSizes, duration \in ChunkDurations :
          call = [fn |-> "chunk_file", reduced_file_size |-> size,
                  duration |-> duration, done |-> FALSE,
                  chunk_count |-> 0, chunk_duration |-> 0, chunk_files |-> 0]

\* chunk_file(), main.py:276-331, on the call's arguments: the count it
\* announces, the segment time it passes and the number of files it lists.
chunk_file_call ==
    /\ call.fn = "chunk_file"
    /\ ~call.done
    /\ LET count == chunk_count(call.reduced_file_size)
           time == chunk_duration(call.duration, count)
       IN  call' = [call EXCEPT !.done = TRUE,
                                !.chunk_count = count,
                                !.chunk_duration = time,
                                !.chunk_files = SplitCount(call.duration, time)]
    /\ UNCHANGED << inputs, service, pc, supported_files, file_index,
                    files_to_transcribe, counter, cont, transcription_srt,
                    stop_event, loader_thread, spinner, reduced_dir, tmp_files,
                    transcripts, stdout, batches, cleanups, journal, failed >>

NextChunk == chunk_file_call

SpecChunk == InitChunk /\ [][NextChunk]_vars

(***************************************************************************)
(* list_whisper_supported_files() alone, on a file, a missing path and     *)
(* every listing of at most MaxListing entries.                            *)
(***************************************************************************)
ListedExtensions == {".mp3", ".MP3", ".webm", ".txt", ".ogg", ""}

\* Sizes in MB around the limit; -1 is an entry whose size cannot be read.
ListedSizes == {-1, 10, 25, 26, 60}

ListedFiles ==
    {InputFile("f", ext, size, 0, 0) : ext \in ListedExtensions, size \in ListedSizes}

Listings == UNION {[1..n -> ListedFiles] : n \in 0..MaxListing}

ListedEntries ==
    {MissingEntry} \cup {FileEntry(f) : f \in ListedFiles}
        \cup {DirEntry(fs) : fs \in Listings}

InitList ==
    /\ inputs = {}
    /\ service = {}
    /\ reduced_dir = FALSE
    /\ InitRun
    /\ \E entry \in ListedEntries :
          call = [fn |-> "list_whisper_supported_files", entry |-> entry,
                  done |-> FALSE, result |-> [ok |-> FALSE, files |-> <<>>]]

list_whisper_supported_files_call ==
    /\ call.fn = "list_whisper_supported_files"
    /\ ~call.done
    /\ call' = [call EXCEPT !.done = TRUE,
                            !.result = list_whisper_supported_files(call.entry)]
    /\ UNCHANGED << inputs, service, pc, supported_files, file_index,
                    files_to_transcribe, counter, cont, transcription_srt,
                    stop_event, loader_thread, spinner, reduced_dir, tmp_files,
                    transcripts, stdout, batches, cleanups, journal, failed >>

NextList == list_whisper_supported_files_call

SpecList == InitList /\ [][NextList]_vars

(***************************************************************************)
(* seconds_to_srt_time() and srt_time_to_seconds() alone: a time of whole  *)
(* milliseconds is formatted and the timestamp is parsed back.             *)
(***************************************************************************)
TimeSamples == (0..MaxTimeMs) \cup LongTimes

InitTime ==
    /\ inputs = {}
    /\ service = {}
    /\ reduced_dir = FALSE
    /\ InitRun
    /\ MaxTimeMs <= TimeGridLimit
    /\ \E s \in TimeSamples :
          call = [fn |-> "srt_time", seconds |-> s, done |-> FALSE,
                  srt_time |-> ZeroTime, total_seconds |-> 0]

\* srt_time_to_seconds(seconds_to_srt_time(seconds)) on the call's argument.
srt_time_call ==
    /\ call.fn = "srt_time"
    /\ ~call.done
    /\ LET srt_time == seconds_to_srt_time(call.seconds, 0)
       IN  call' = [call EXCEPT !.done = TRUE,
                                !.srt_time = srt_time,
                                !.total_seconds = srt_time_to_seconds(srt_time)]
    /\ UNCHANGED << inputs, service, pc, supported_files, file_index,
                    files_to_transcribe, counter, cont, transcription_srt,
                    stop_event, loader_thread, spinner, reduced_dir, tmp_files,
                    transcripts, stdout, batches, cleanups, journal, failed >>

NextTime == srt_time_call

SpecTime == InitTime /\ [][NextTime]_vars

(***************************************************************************)
(* What a transcript holds, read back in file order.                       *)
(***************************************************************************)
IsIdLine(line) == line.k = "id"

IsTimeLine(line) == line.k = "time"

\* The ids of the blocks of a transcript, in file order.
BlockIds(lines) ==
    LET ids == SelectSeq(lines, IsIdLine) IN [i \in DOMAIN ids |-> ids[i].n]

\* The start and end times (ms) of the blocks of a transcript, in file order.
BlockStarts(lines) ==
    LET ts == SelectSeq(lines, IsTimeLine)
    IN  [i \in DOMAIN ts |-> srt_time_to_seconds(ts[i].from)]

BlockEnds(lines) ==
    LET ts == SelectSeq(lines, IsTimeLine)
    IN  [i \in DOMAIN ts |-> srt_time_to_seconds(ts[i].to)]

\* The lines entry e of the journal appended to its transcript.
AppendedBy(e) ==
    SubSeq(transcripts[e.path.base].lines, e.before + 1, e.before + e.added)

\* The chunks of the base name were listed in ascending order, and those
\* transcribed so far are its chunks 0, 1, 2, ..., in this order (a file that
\* was not split is its only chunk).
AscendingRun(base) ==
    LET OfBase(path) == path.base = base
        OfBaseEntry(e) == e.path.base = base
        listed == SelectSeq(files_to_transcribe, OfBase)
        done == SelectSeq(journal, OfBaseEntry)
    IN  /\ \A i \in DOMAIN listed : SequenceIndex(listed[i]) = i - 1
        /\ \A i \in DOMAIN done : SequenceIndex(done[i].path) = i - 1

\* The entries of the journal for the base name, in the order of the run.
JournalOf(base) ==
    LET OfBaseEntry(e) == e.path.base = base IN SelectSeq(journal, OfBaseEntry)

(***************************************************************************)
(* The claims.                                                             *)
(***************************************************************************)
\* C1: for a base name split into chunks that are listed and transcribed in
\* ascending order, the ids of the blocks of its transcript, read in file
\* order, are strictly increasing and start at 1 (ids 1, 2, 3, ... whatever
\* the number of chunks).
C1_IdsIncreaseFromOne ==
    \A base \in BaseNames :
        AscendingRun(base) =>
            LET ids == BlockIds(transcripts[base].lines)
            IN  /\ ids # <<>> => ids[1] = 1
                /\ \A i \in DOMAIN ids : i > 1 => ids[i - 1] < ids[i]

\* C2: the start times of the blocks of a transcript are non-decreasing in
\* file order, and the first block a chunk i > 0 writes starts no earlier
\* than the last block of chunk i-1 ends (chunks transcribed in ascending
\* order; every response has non-negative, non-decreasing start times).
C2_TimesContinue ==
    \A base \in BaseNames :
        AscendingRun(base) =>
            /\ LET starts == BlockStarts(transcripts[base].lines)
               IN  \A i \in DOMAIN starts : i > 1 => starts[i - 1] <= starts[i]
            /\ LET done == JournalOf(base)
               IN  \A i \in DOMAIN done :
                      (i > 1 /\ BlockStarts(AppendedBy(done[i])) # <<>>
                             /\ BlockEnds(AppendedBy(done[i - 1])) # <<>>)
                      => BlockStarts(AppendedBy(done[i]))[1]
                            >= Last(BlockEnds(AppendedBy(done[i - 1])))

\* C3: while transcription() is at work on a file, it started from the zero
\* state (last id 0, last end 0, nothing read) exactly when the file has
\* sequence index 0; a chunk of index > 0 that follows chunk index-1 of its
\* base name has read its state from the transcript.
C3_ZeroStateOnlyForIndexZero ==
    (pc \in {"whisper", "join"}
        /\ (SequenceIndex(CurrentPath) > 0 =>
               /\ journal # <<>>
               /\ Last(journal).path
                    = ChunkPath(CurrentPath.base, CurrentPath.idx - 1)))
    => /\ cont.read <=> SequenceIndex(CurrentPath) > 0
       /\ ~cont.read => cont = ZeroState

\* C4: the chunks of a file stand in files_to_transcribe by ascending index,
\* and are transcribed in that order, however the directory is enumerated.
C4_ChunksAscending ==
    /\ \A i, j \in DOMAIN files_to_transcribe :
          (i < j /\ IsChunk(files_to_transcribe[i])
                 /\ IsChunk(files_to_transcribe[j])
                 /\ files_to_transcribe[i].base = files_to_transcribe[j].base)
          => files_to_transcribe[i].idx < files_to_transcribe[j].idx
    /\ \A i, j \in DOMAIN journal :
          (i < j /\ IsChunk(journal[i].path) /\ IsChunk(journal[j].path)
                 /\ journal[i].path.base = journal[j].path.base)
          => journal[i].path.idx < journal[j].path.idx

\* C5: for every reduced size over 25 MB and every duration > 0, chunk_file()
\* announces ceil(size / 25) chunks and the splitter, cutting every
\* chunk_duration seconds, writes exactly that many files.
C5_AsManyFilesAsChunks ==
    (call.fn = "chunk_file" /\ call.done) =>
        /\ call.chunk_count = CeilDiv(call.reduced_file_size, 25)
        /\ call.chunk_files = call.chunk_count

\* C6: from the step in which the transcription call fails for a file on,
\* the failure stands reported, no transcript changes any more (nothing is
\* appended for the failed chunk or a later one, and what the earlier chunks
\* wrote stays as it is) and no further transcription is journalled.
C6_FailedChunkWritesNothing ==
    [][failed' # 0 =>
          /\ "Something broke" \in stdout'
          /\ transcripts' = transcripts
          /\ journal' = journal]_vars

\* C6 happens: the call failed for chunk 1 of b after chunk 0 wrote blocks.
C6_Witness ==
    /\ failed # 0
    /\ pc = "done"
    /\ files_to_transcribe[failed] = ChunkPath("b", 1)
    /\ \E i \in DOMAIN journal : journal[i].path = ChunkPath("b", 0)
    /\ BlockIds(transcripts["b"].lines) # <<>>

\* C7: when main() has returned, by the exit command, an error or an
\* interrupt, the directory reduced_files does not exist.
C7_NoTempDirAfterMain == pc = "done" => (~reduced_dir /\ tmp_files = {})

\* C7 happens: an interrupt ended a run that had put chunk files into
\* reduced_files, and only the finally clause cleaned up.
C7_Witness ==
    /\ pc = "done"
    /\ "Operation interrupted by user." \in stdout
    /\ \E i \in DOMAIN files_to_transcribe : IsChunk(files_to_transcribe[i])
    /\ cleanups = 1

\* C8: the loader thread runs only while the main thread is inside the call
\* of whisper() or waits in join(): on every way out of the call the thread
\* has ended before main() goes on, and none runs when main() has returned.
C8_LoaderJoined == loader_thread = "running" => pc \in {"whisper", "join"}

\* The seven supported types, in the spellings the files of the model have.
WhisperTypes ==
    {".mp3", ".MP3", ".mp4", ".mpeg", ".mpga", ".m4a", ".wav", ".WAV", ".webm"}

\* The entries of a listing with their sizes, as the classifier returns them.
WithSizes(files) ==
    [i \in DOMAIN files |-> [file_path |-> files[i], file_size |-> files[i].size]]

\* The path is a file or a directory and the size of every entry can be read.
Readable(entry) ==
    /\ entry.kind \in {"file", "dir"}
    /\ \A i \in DOMAIN entry.files : entry.files[i].size >= 0

C10_PathErrorReturnsToPrompt ==
    [][("Path error: Not a file or a folder." \notin stdout
            /\ "Path error: Not a file or a folder." \in stdout')
        => (pc' = "prompt" /\ supported_files' = <<>>)]_vars

\* C11: a time of whole milliseconds, formatted by seconds_to_srt_time and
\* parsed back by srt_time_to_seconds, comes back within one millisecond:
\* the same time or, where the truncation bites, the millisecond before; the
\* timestamp holds the fields of the time that comes back.
C11_RoundTripWithinOneMs ==
    (call.fn = "srt_time" /\ call.done) =>
        /\ call.seconds - call.total_seconds \in {0, 1}
        /\ call.srt_time.m \in 0..59
        /\ call.srt_time.s \in 0..59
        /\ call.srt_time.ms \in 0..999

\* C11 happens at its limit: 1.001 s is written as 00:00:01,000 and comes
\* back as 1.000 s.
C11_Witness ==
    /\ call.fn = "srt_time"
    /\ call.done
    /\ call.seconds = 1001
    /\ call.srt_time = [h |-> 0, m |-> 0, s |-> 1, ms |-> 0]
    /\ call.total_seconds = 1000

\* The texts of the blocks among the lines, in file order.
BlockTexts(lines) ==
    LET IsSpoken(line) == line.k = "text" /\ line # BlankLine
        ts == SelectSeq(lines, IsSpoken)
    IN  [i \in DOMAIN ts |-> ts[i].txt]

\* C12: when whisper() has returned, its output holds one block per raw
\* segment, in order, with id = local id + 1 + last id, start = raw start +
\* last end, end = raw end + last end, and the text without the blanks
\* around it.
C12_BlocksShifted ==
    pc = "join" =>
        LET ids == BlockIds(transcription_srt)
            starts == BlockStarts(transcription_srt)
            ends == BlockEnds(transcription_srt)
            texts == BlockTexts(transcription_srt)
        IN  /\ Response(Len(ids)) \in service
            /\ Len(starts) = Len(ids) /\ Len(ends) = Len(ids)
            /\ Len(texts) = Len(ids)
            /\ \A i \in DOMAIN ids :
                  LET raw == RawSegment(i - 1)
                  IN  /\ ids[i] = raw.id + 1 + cont.last_id
                      /\ starts[i] = raw.start + cont.last_timestamp_seconds
                      /\ ends[i] = raw.end + cont.last_timestamp_seconds
                      /\ texts[i] = "and finally"

\* C13: while transcription() is at work on a chunk of index i > 0 that
\* follows chunk i-1 of its base name, and chunk i-1 appended blocks, the
\* state passed to whisper() is the id and the end time of the last block
\* chunk i-1 appended.
C13_StateFromPreviousChunk ==
    (/\ pc \in {"whisper", "join"}
     /\ SequenceIndex(CurrentPath) > 0
     /\ journal # <<>>
     /\ Last(journal).path = ChunkPath(CurrentPath.base, CurrentPath.idx - 1)
     /\ BlockIds(AppendedBy(Last(journal))) # <<>>)
    => /\ cont.last_id = Last(BlockIds(AppendedBy(Last(journal))))
       /\ cont.last_timestamp_seconds = Last(BlockEnds(AppendedBy(Last(journal))))

\* C14: a step in which the transcode of a file fails reports an error,
\* abandons that file alone and lets main() go on with the next file of the
\* batch: what is already in files_to_transcribe stays there.
C14_TranscodeFailureSkipsFile ==
    [][reduce_file_raise =>
          /\ stdout' # stdout
          /\ pc' = "prepare"
          /\ file_index' = file_index + 1
          /\ files_to_transcribe' = files_to_transcribe]_vars

\* C15: a step in which the split of a file fails reports an error and puts
\* none of the chunk files the split left behind into files_to_transcribe.
C15_FailedSplitPassesNothing ==
    [][chunk_file_failed =>
          /\ stdout' # stdout
          /\ \A i \in DOMAIN files_to_transcribe' :
                IsChunk(files_to_transcribe'[i]) =>
                    /\ i \in DOMAIN files_to_transcribe
                    /\ files_to_transcribe[i] = files_to_transcribe'[i]]_vars

\* s is a prefix of t.
IsPrefix(s, t) == Len(s) <= Len(t) /\ SubSeq(t, 1, Len(s)) = s

\* C16: in every step of a run (a chunk transcribed, a chunk failed, an
\* interrupt, the cleanup) a transcript that exists goes on existing and
\* what it held is a prefix of what it holds afterwards.
C16_TranscriptAppendOnly ==
    [][\A base \in BaseNames :
          transcripts[base].exists =>
              /\ transcripts'[base].exists
              /\ IsPrefix(transcripts[base].lines, transcripts'[base].lines)]_vars

\* C16 happens: two chunks of b appended blocks to b.txt, then the run was
\* interrupted and the temporary files were removed.
C16_Witness ==
    /\ pc = "done"
    /\ "Operation interrupted by user." \in stdout
    /\ cleanups = 1
    /\ Len(JournalOf("b")) = 2
    /\ \A i \in 1..2 : BlockIds(AppendedBy(JournalOf("b")[i])) # <<>>
    /\ Len(BlockIds(transcripts["b"].lines)) >= 2

\* main() is inside the block of main.py:548-592 that handles one batch.
InBatch ==
    pc \in {"prepare", "reduce_prompt", "reducing", "splitting", "transcribe",
            "whisper", "join"}

\* C17 as amended: cleanup_reduced_files() is called once at the end of
\* every batch (main.py:592) and once more in the finally clause: while
\* main() runs the calls are as many as the batches that ended, and when it
\* has returned they are at least one and at most one more than the batches
\* that were started.
C17_CleanupPerBatchAndAtExit ==
    /\ pc = "done" => cleanups \in 1..(batches + 1)
    /\ (pc # "done" /\ InBatch) => cleanups = batches - 1
    /\ (pc # "done" /\ ~InBatch) => cleanups = batches

\* C17 happens: a batch was transcribed to its end and the user then left
\* main(): the cleanup ran after the batch and again in the finally clause.
C17_Witness ==
    /\ pc = "done"
    /\ batches = 1
    /\ "Processing complete" \in stdout
    /\ stdout \cap {"Something broke", "Operation interrupted by user."} = {}
    /\ cleanups = 2

\* C17 as claimed: when main() has returned, cleanup_reduced_files() has
\* been called exactly once.
C17_CleanupExactlyOnce == pc = "done" => cleanups = 1

\* The entries of files_to_transcribe that were prepared for the base name.
PreparedFor(base) ==
    LET OfBase(path) == path.base = base
    IN  SelectSeq(files_to_transcribe, OfBase)

C19_NextChunkAfterAppend ==
    (pc = "whisper" /\ IsChunk(CurrentPath) /\ CurrentPath.idx > 0) =>
        /\ transcription_srt = <<>>
        /\ \E j \in DOMAIN journal :
              /\ journal[j].path = ChunkPath(CurrentPath.base, CurrentPath.idx - 1)
              /\ IsPrefix(AppendedBy(journal[j]),
                          SubSeq(transcripts[CurrentPath.base].lines,
                                 journal[j].before + 1,
                                 Len(transcripts[CurrentPath.base].lines)))

\* transcription() is about to be called for a chunk of index > 0 all of
\* whose earlier chunks were transcribed and appended without error.
AfterEarlierChunks ==
    /\ pc = "transcribe"
    /\ counter < Len(files_to_transcribe)
    /\ IsChunk(CurrentPath)
    /\ CurrentPath.idx > 0
    /\ \A i \in 0..(CurrentPath.idx - 1) :
          \E j \in DOMAIN journal : journal[j].path = ChunkPath(CurrentPath.base, i)

\* C20: for such a chunk the recovery of the continuation state does not
\* fail, whatever the earlier chunks returned: transcription() goes on to
\* the call of whisper() with the id and end time of the last block the
\* transcript holds, or with the zero state when it holds none.
C20_RecoveryNeverFails ==
    [][(AfterEarlierChunks /\ ~KeyboardInterrupt) =>
          LET lines == transcripts[CurrentPath.base].lines
              ids == BlockIds(lines)
              ends == BlockEnds(lines)
          IN  /\ pc' = "whisper"
              /\ cont'.last_id = IF ids = <<>> THEN 0 ELSE Last(ids)
              /\ cont'.last_timestamp_seconds =
                    IF ends = <<>> THEN 0 ELSE Last(ends)]_vars

\* The input file whose audio the file at a temporary path holds.
AudioOf(files, path) ==
    (CHOOSE t \in files : t.base = path.base /\ t.idx = path.idx).src

\* A step of the preparation of a file: reduce_file() or chunk_file() ends
\* and main() goes on.
Preparing ==
    /\ pc \in {"reducing", "splitting"}
    /\ pc' \in {"prepare", "splitting"}

\* C21: a step of the preparation leaves every file already in
\* files_to_transcribe with the audio it held (no reduced or chunk file of an
\* earlier file of the batch is overwritten), and every path it adds to
\* files_to_transcribe holds audio of the file that is being prepared
\* (chunk_file() returns the files of its own split only).
C21_PathsHoldOwnAudio ==
    [][Preparing =>
          LET f == supported_files[file_index].file_path
          IN  /\ \A k \in DOMAIN files_to_transcribe :
                    files_to_transcribe[k].tmp =>
                        AudioOf(tmp_files', files_to_transcribe[k])
                            = AudioOf(tmp_files, files_to_transcribe[k])
              /\ \A k \in DOMAIN files_to_transcribe' :
                    k > Len(files_to_transcribe) =>
                        AudioOf(tmp_files', files_to_transcribe'[k])
                            = <<f.base, f.ext>>]_vars

====
